---- MODULE Spec2Model ----
(***************************************************************************)
(* Model of src/src/index.ts: the guard library, the validator factories   *)
(* validateEmail / validateRegex, the aggregator runValidations, and the   *)
(* sheet / workbook / space schema with its cross-sheet references.        *)
(*                                                                         *)
(* JavaScript values are records [type, val].  Strings are sequences of    *)
(* UTF-16 code units (integers), so character classes are code-unit        *)
(* ranges exactly as the regular expressions of the source state them.     *)
(***************************************************************************)
EXTENDS Integers, Sequences, FiniteSets

(***************************************************************************)
(* Bounds of the model.                                                    *)
(***************************************************************************)
\* longest freely chosen prefix of a candidate cell value
MaxPrefix == 2
\* longest run of padding characters appended to a prefix
MaxPad == 73
\* the runs of padding are the PadSpread shortest and the PadSpread longest
PadSpread == 8
\* longest list of checks handed to runValidations directly
MaxChecks == 3
\* the guards are applied to the numbers -MaxNumber..MaxNumber
MaxNumber == 2
\* number of workers that invoke validate hooks concurrently
NumWorkers == 2

(***************************************************************************)
(* JavaScript values.                                                      *)
(***************************************************************************)
Null == [type |-> "null", val |-> <<>>]
Undefined == [type |-> "undefined", val |-> <<>>]
Str(s) == [type |-> "string", val |-> s]
Bool(b) == [type |-> "boolean", val |-> b]
Num(n) == [type |-> "number", val |-> [nan |-> FALSE, n |-> n]]
NaN == [type |-> "number", val |-> [nan |-> TRUE, n |-> 0]]
Array(a) == [type |-> "array", val |-> a]
Message(text, kind, stage) ==
    [type |-> "Message", val |-> [text |-> text, kind |-> kind, stage |-> stage]]
TypeError == [type |-> "throw", val |-> "TypeError"]

IsThrow(x) == x.type = "throw"

(***************************************************************************)
(* Guards.                                                                 *)
(***************************************************************************)
isNull(x) == x = Null

isUndefined(x) == x = Undefined

isString(x) == x.type = "string"

isNumber(x) == x.type = "number"

\* variant: !x, every falsy value of the language counts as nil
isNil_Not(x) ==
    isNull(x) \/ isUndefined(x) \/ (isString(x) /\ x = Str(<<>>))
        \/ x = Num(0) \/ x = NaN \/ x = Bool(FALSE)

isNil(x) == isNull(x) \/ isUndefined(x) \/ (isString(x) /\ x = Str(<<>>))

\* variant: only null is dropped
isNotNil_OnlyNull(x) == ~isNull(x)

isNotNil(x) == ~isNil(x)

\* variant: the not-a-number value is forgotten
isFalsy_NoNaN(x) == x = Num(0) \/ x = Bool(FALSE) \/ isNil(x)

isFalsy(x) == x = Num(0) \/ x = NaN \/ x = Bool(FALSE) \/ isNil(x)

isTruthy(x) == ~isFalsy(x)

(***************************************************************************)
(* Strings and regular expressions.                                        *)
(***************************************************************************)
\* String(x) as RegExp.prototype.test applies it to its argument
ToString(x) ==
    CASE x.type = "string" -> x.val
      [] x.type = "null" -> <<110, 117, 108, 108>>
      [] x.type = "undefined" -> <<117, 110, 100, 101, 102, 105, 110, 101, 100>>
      [] x.type = "boolean" ->
            IF x.val THEN <<116, 114, 117, 101>> ELSE <<102, 97, 108, 115, 101>>
      [] OTHER -> <<>>

\* String.prototype.includes for a one-character needle
Includes(s, c) == \E k \in 1..Len(s) : s[k] = c

AtSign == 64

\* a regular expression ^ATOM{min,max}$ without flags; max = Unbounded for +
Unbounded == -1

\* /^.{8,72}$/ : the dot matches any code unit but the four line terminators
PasswordRegex ==
    [negate |-> TRUE,
     ranges |-> << <<10, 10>>, <<13, 13>>, <<8232, 8233>> >>,
     min |-> 8, max |-> 72]

\* variant: /^[a-zA-Z0-9]*$/
AlnumRegex_Star ==
    [negate |-> FALSE,
     ranges |-> << <<97, 122>>, <<65, 90>>, <<48, 57>> >>,
     min |-> 0, max |-> Unbounded]

\* /^[a-zA-Z0-9]+$/
AlnumRegex ==
    [negate |-> FALSE,
     ranges |-> << <<97, 122>>, <<65, 90>>, <<48, 57>> >>,
     min |-> 1, max |-> Unbounded]

InRanges(c, ranges) ==
    \E r \in 1..Len(ranges) : ranges[r][1] <= c /\ c <= ranges[r][2]

AtomMatches(regex, c) == InRanges(c, regex.ranges) # regex.negate

\* number of leading code units of s, from position k on, the atom accepts
RECURSIVE Consume(_, _, _)
Consume(regex, s, k) ==
    IF k > Len(s) \/ ~AtomMatches(regex, s[k])
    THEN 0
    ELSE IF regex.max # Unbounded /\ regex.max = 0
         THEN 0
         ELSE 1 + Consume([regex EXCEPT !.max =
                              IF @ = Unbounded THEN @ ELSE @ - 1], s, k + 1)

\* regex.test(x): anchored at the start, greedy quantifier, $ at end of input
RegexTest(regex, x) ==
    LET s == ToString(x)
        n == Consume(regex, s, 1)
    IN  Bool(n >= regex.min /\ n = Len(s))

(***************************************************************************)
(* Field validations.                                                      *)
(***************************************************************************)
EmailMessage == Message("Invalid email address.", "error", "validate")

FormatMessage == Message("Value does not meet required format.", "error", "validate")

\* variant: value.startsWith('@')
validateEmail_StartsWith(value) ==
    IF ~isString(value)
    THEN TypeError
    ELSE IF ~(Len(value.val) > 0 /\ value.val[1] = AtSign)
         THEN EmailMessage
         ELSE Undefined

\* the result of invoking the check validateEmail(value)
validateEmail(value) ==
    IF ~isString(value)
    THEN TypeError
    ELSE IF ~Includes(value.val, AtSign) THEN EmailMessage ELSE Undefined

\* the result of invoking the check validateRegex(regex)(value)
validateRegex(regex, value) ==
    IF isFalsy(RegexTest(regex, value)) THEN FormatMessage ELSE Undefined

\* a check is the closure a factory returned: the factory and what it captured
EmailCheck(value) == [factory |-> "validateEmail", value |-> value]
RegexCheck(regex, value) ==
    [factory |-> "validateRegex", regex |-> regex, value |-> value]

\* fn()
Invoke(fn) ==
    IF fn.factory = "validateEmail"
    THEN validateEmail(fn.value)
    ELSE validateRegex(fn.regex, fn.value)

(***************************************************************************)
(* Field, sheet, workbook and space configuration.                         *)
(***************************************************************************)
Absent == "<absent>"

NoHook == [factory |-> "none"]

\* validate: (value) => runValidations(validateEmail(value))
EmailHook == [factory |-> "validateEmail"]

\* validate: (value) => runValidations(validateRegex(/^.{8,72}$/)(value))
PasswordHook == [factory |-> "validateRegex", regex |-> PasswordRegex]

\* validate: (value) => runValidations(validateRegex(/^[a-zA-Z0-9]+$/)(value))
AlnumHook == [factory |-> "validateRegex", regex |-> AlnumRegex]

FieldOf(kind, name, required, primary, unique) ==
    [name |-> name, kind |-> kind, required |-> required, primary |-> primary,
     unique |-> unique, sheetKey |-> Absent, foreignKey |-> Absent,
     relationship |-> Absent, validate |-> NoHook]

TextField(name, required, primary, unique) ==
    FieldOf("TextField", name, required, primary, unique)

NumberField(name, required, primary, unique) ==
    FieldOf("NumberField", name, required, primary, unique)

OptionField(name, required, primary, unique) ==
    FieldOf("OptionField", name, required, primary, unique)

ReferenceField(name, required, primary, unique) ==
    FieldOf("ReferenceField", name, required, primary, unique)

SmartDateField(name, required, primary, unique) ==
    FieldOf("SmartDateField", name, required, primary, unique)

\* the sheetKey / foreignKey / relationship options of a field
References(field, sheetKey, foreignKey, relationship) ==
    [field EXCEPT !.sheetKey = sheetKey, !.foreignKey = foreignKey,
                  !.relationship = relationship]

\* the validate option of a field
Validated(field, hook) == [field EXCEPT !.validate = hook]

Sheet(name, fields) == [name |-> name, fields |-> fields]

\* variant: id is neither primary nor unique
Employees_id_NotKey == TextField("id", TRUE, FALSE, FALSE)

\* Employees.id, lines 190-201
Employees_id == TextField("id", TRUE, TRUE, TRUE)

\* EmployeeRoles.EmployeeId, lines 910-925
EmployeeRoles_EmployeeId ==
    References(ReferenceField("EmployeeId", TRUE, TRUE, FALSE),
               "Employees", "id", "has-many")

\* variant: Role is a second primary field
EmployeeRoles_Role_Primary == TextField("Role", TRUE, TRUE, FALSE)

\* EmployeeRoles.Role, lines 929-939
EmployeeRoles_Role == TextField("Role", TRUE, FALSE, FALSE)

\* new Sheet('Employees', {...}), lines 189-905
Employees ==
    Sheet("Employees", <<
        Employees_id,
        TextField("FirstName", TRUE, FALSE, FALSE),
        TextField("LastName", TRUE, FALSE, FALSE),
        TextField("Salutation", FALSE, FALSE, FALSE),
        TextField("Address", FALSE, FALSE, FALSE),
        TextField("SuiteNumber", FALSE, FALSE, FALSE),
        TextField("City", FALSE, FALSE, FALSE),
        TextField("Province", FALSE, FALSE, FALSE),
        OptionField("Country", FALSE, FALSE, FALSE),
        TextField("PostalCode", FALSE, FALSE, FALSE),
        TextField("MainPhoneNumber", FALSE, FALSE, FALSE),
        TextField("PersonalPhoneNumber", FALSE, FALSE, FALSE),
        TextField("OtherPhoneNumber", FALSE, FALSE, FALSE),
        TextField("FaxNumber", FALSE, FALSE, FALSE),
        TextField("JobTitle", FALSE, FALSE, FALSE),
        Validated(TextField("EmailAddress", TRUE, FALSE, TRUE), EmailHook),
        Validated(TextField("Password", TRUE, FALSE, FALSE), PasswordHook),
        SmartDateField("DateOfBirth", FALSE, FALSE, FALSE),
        OptionField("Gender", FALSE, FALSE, FALSE),
        SmartDateField("EmploymentDate", FALSE, FALSE, FALSE),
        SmartDateField("TerminationDate", FALSE, FALSE, FALSE),
        OptionField("Status", TRUE, FALSE, FALSE),
        Validated(TextField("PayrollId", FALSE, FALSE, FALSE), AlnumHook),
        TextField("EmploymentType", FALSE, FALSE, FALSE),
        TextField("OvertimeRule", FALSE, FALSE, FALSE),
        Validated(TextField("SINNumber", FALSE, FALSE, FALSE), AlnumHook),
        Validated(TextField("CertificationNumber", FALSE, FALSE, FALSE), AlnumHook),
        TextField("Designation", FALSE, FALSE, FALSE),
        TextField("SeniorityRank", FALSE, FALSE, FALSE),
        TextField("SeniorityNumber", FALSE, FALSE, FALSE),
        SmartDateField("SeniorityDate", FALSE, FALSE, FALSE),
        TextField("SalaryBase", FALSE, FALSE, FALSE),
        NumberField("MinDailyCapacity", FALSE, FALSE, FALSE),
        NumberField("MaxDailyCapacity", FALSE, FALSE, FALSE),
        NumberField("MinWeeklyCapacity", FALSE, FALSE, FALSE),
        NumberField("MaxWeeklyCapacity", FALSE, FALSE, FALSE),
        NumberField("MaxCaseload", FALSE, FALSE, FALSE),
        OptionField("DefaultEmployeeAvailability", FALSE, FALSE, FALSE),
        OptionField("SubmitVisitAttachments", FALSE, FALSE, FALSE),
        OptionField("TravelMode", FALSE, FALSE, FALSE),
        TextField("preferred_language", FALSE, FALSE, FALSE),
        TextField("Remarks", FALSE, FALSE, FALSE),
        TextField("CostCentreNumber", FALSE, FALSE, FALSE),
        TextField("SupplierCode", FALSE, FALSE, FALSE),
        OptionField("Timezone", FALSE, FALSE, FALSE) >>)

\* new Sheet('Employee Roles', {...}), lines 907-940
EmployeeRoles ==
    Sheet("Employee Roles", <<
        EmployeeRoles_EmployeeId,
        EmployeeRoles_Role >>)

\* new Sheet('Employee Departments', {...}), lines 941-976
EmployeeDepartments ==
    Sheet("Employee Departments", <<
        TextField("DepartmentCode", TRUE, FALSE, FALSE),
        References(TextField("EmployeeId", TRUE, FALSE, FALSE), "Employees", "id", "has-many") >>)

\* new Sheet('Employee Groups', {...}), lines 978-1013
EmployeeGroups ==
    Sheet("Employee Groups", <<
        References(TextField("EmployeeId", TRUE, FALSE, FALSE), "Employees", "id", "has-many"),
        TextField("GroupName", TRUE, FALSE, FALSE) >>)

\* new Sheet('Associated Employees', {...}), lines 1015-1064
AssociatedEmployees ==
    Sheet("Associated Employees", <<
        TextField("ClientId", TRUE, TRUE, FALSE),
        References(TextField("EmployeeId", TRUE, FALSE, FALSE), "Employees", "id", "has-many"),
        TextField("Description", FALSE, FALSE, FALSE) >>)
(***************************************************************************)
(* Inputs.                                                                 *)
(***************************************************************************)
\* code units candidate values are drawn from: LF, '-', '0', '@', 'A', '[', 'z'
Alphabet == {10, 45, 48, 64, 65, 91, 122}

Prefixes == UNION {[1..n -> Alphabet] : n \in 0..MaxPrefix}

\* k times the code unit of 'x'
Pad(k) == [j \in 1..k |-> 120]

\* what the platform hands to a validate hook: a string or a nil value
PadLengths == (0..PadSpread) \cup ((MaxPad - PadSpread)..MaxPad)

CellValues ==
    {Null, Undefined} \cup {Str(p \o Pad(k)) : p \in Prefixes, k \in PadLengths}

\* "A@", "AB12xxxx"
PoolValues == {Str(<<65, 64>>), Str(<<65, 66, 49, 50>> \o Pad(4))}

\* the checks the two factories build over the pool values
CheckPool ==
    {EmailCheck(v) : v \in PoolValues}
        \cup {RegexCheck(r, v) : r \in {PasswordRegex, AlnumRegex}, v \in PoolValues}

CheckLists == UNION {[1..n -> CheckPool] : n \in 0..MaxChecks}

\* the values the guards are applied to: the nil values, strings, numbers,
\* not-a-number, the booleans, an array and a Message object
GuardValues ==
    {Null, Undefined, NaN, Bool(FALSE), Bool(TRUE), Array(<<>>), EmailMessage}
        \cup {Str(p) : p \in Prefixes}
        \cup {Num(n) : n \in (0 - MaxNumber)..MaxNumber}

(***************************************************************************)
(* State.                                                                  *)
(***************************************************************************)
VARIABLES
    loaded,     \* the Sheet constants the module has evaluated, in order
    space,      \* the exported SpaceConfig, NoSpace before the export
    pc,         \* position of the current runValidations call
    hook,       \* name of the field whose validate hook called, or Absent
    fns,        \* the checks passed to runValidations
    acc,        \* the accumulator of the reduce
    calls,      \* indices of fns invoked so far, in invocation order
    result,     \* what runValidations returned
    probe,      \* the value the guards were applied to, and what they returned
    frames,     \* per worker, the frame of its current runValidations call
    arrays      \* the accumulator arrays of the reduce calls, by identity

vars == <<loaded, space, pc, hook, fns, acc, calls, result, probe, frames, arrays>>

Workers == 1..NumWorkers

\* a worker with no call of runValidations on its stack
IdleFrame ==
    [pc |-> "idle", hook |-> Absent, fns |-> <<>>, calls |-> <<>>,
     result |-> Undefined]

NoProbe == [value |-> Absent]

NoSpace == [name |-> Absent]

\* the Sheet constants in the order the module evaluates them
SheetConstants ==
    <<Employees, EmployeeRoles, EmployeeDepartments, EmployeeGroups,
      AssociatedEmployees>>

\* no call of runValidations is on the stack
Idle ==
    /\ pc = "idle"
    /\ hook = Absent
    /\ fns = <<>>
    /\ acc = <<>>
    /\ calls = <<>>
    /\ result = Undefined
    /\ probe = NoProbe

\* no worker has a call of runValidations on its stack
WorkersIdle ==
    /\ frames = [w \in Workers |-> IdleFrame]
    /\ arrays = [w \in Workers |-> <<>>]

Init ==
    /\ loaded = <<>>
    /\ space = NoSpace
    /\ Idle
    /\ WorkersIdle

\* const X = new Sheet(...)
DefineSheet ==
    /\ Len(loaded) < Len(SheetConstants)
    /\ loaded' = Append(loaded, SheetConstants[Len(loaded) + 1])
    /\ UNCHANGED <<space, pc, hook, fns, acc, calls, result, probe, frames, arrays>>

\* new Workbook({ ..., sheets: { Employees, EmployeeRoles, ... } })
Workbook(sheets) ==
    [name |-> "Employees", slug |-> "Employeesworkbook",
     namespace |-> "Employees",
     sheets |-> [Employees |-> sheets[1], EmployeeRoles |-> sheets[2],
                 EmployeeDepartments |-> sheets[3],
                 EmployeeGroups |-> sheets[4],
                 AssociatedEmployees |-> sheets[5]]]

\* export default new SpaceConfig({...})
ExportSpaceConfig ==
    /\ Len(loaded) = Len(SheetConstants)
    /\ space = NoSpace
    /\ space' = [name |-> "Employees", slug |-> "Employeessc",
                 workbookConfigs |-> [basic |-> Workbook(loaded)]]
    /\ UNCHANGED <<loaded, pc, hook, fns, acc, calls, result, probe, frames, arrays>>

\* the sheets of the exported workbook, by key
SheetsOf(sp) ==
    IF sp = NoSpace THEN [k \in {} |-> NoSpace]
    ELSE sp.workbookConfigs.basic.sheets

\* the places <<sheet key, field position>> of the exported fields
FieldPlaces(sp) ==
    UNION {{<<key, k>> : k \in 1..Len(SheetsOf(sp)[key].fields)} :
              key \in DOMAIN SheetsOf(sp)}

FieldAt(sp, place) == SheetsOf(sp)[place[1]].fields[place[2]]

\* the places of the exported fields that carry a validate hook
HookedFields(sp) ==
    {place \in FieldPlaces(sp) : FieldAt(sp, place).validate.factory # "none"}

\* the check a validate hook builds from the cell value
HookCheck(h, value) ==
    IF h.factory = "validateEmail"
    THEN EmailCheck(value)
    ELSE RegexCheck(h.regex, value)

\* entry of runValidations(...fns)
Enter(caller, checks) ==
    /\ pc = "idle"
    /\ pc' = "reduce"
    /\ hook' = caller
    /\ fns' = checks
    /\ acc' = <<>>
    /\ calls' = <<>>
    /\ result' = Undefined
    /\ UNCHANGED <<loaded, space, probe, frames, arrays>>

\* the platform invokes field.validate(value)
InvokeValidate ==
    /\ pc = "idle"
    /\ \E place \in HookedFields(space), value \in CellValues :
           LET field == FieldAt(space, place)
           IN  Enter(field.name, <<HookCheck(field.validate, value)>>)

\* runValidations(fn1, fn2, ...) on a list of checks
CallRunValidations ==
    /\ pc = "idle"
    /\ \E checks \in CheckLists : Enter(Absent, checks)

\* variant: the first Message ends the reduce
ReduceStep_ShortCircuit ==
    /\ pc = "reduce"
    /\ Len(acc) < Len(fns)
    /\ LET k == Len(acc) + 1
           r == Invoke(fns[k])
       IN  /\ calls' = Append(calls, k)
           /\ IF IsThrow(r)
              THEN pc' = "thrown" /\ acc' = acc /\ result' = result
              ELSE IF r.type = "Message"
                   THEN /\ pc' = "done"
                        /\ acc' = Append(acc, r)
                        /\ result' = Array(SelectSeq(Append(acc, r), isNotNil))
                   ELSE pc' = pc /\ acc' = Append(acc, r) /\ result' = result
    /\ UNCHANGED <<loaded, space, hook, fns, probe, frames, arrays>>

\* one iteration of fns.reduce((acc, fn) => [...acc, fn()], [])
ReduceStep ==
    /\ pc = "reduce"
    /\ Len(acc) < Len(fns)
    /\ LET k == Len(acc) + 1
           r == Invoke(fns[k])
       IN  /\ calls' = Append(calls, k)
           /\ IF IsThrow(r)
              THEN pc' = "thrown" /\ acc' = acc
              ELSE pc' = pc /\ acc' = Append(acc, r)
    /\ UNCHANGED <<loaded, space, hook, fns, result, probe, frames, arrays>>

\* the first occurrence of every element of a
RECURSIVE Dedupe(_)
Dedupe(a) ==
    IF a = <<>> THEN <<>>
    ELSE LET rest == Dedupe(SubSeq(a, 1, Len(a) - 1))
             last == a[Len(a)]
         IN  IF \E j \in 1..Len(rest) : rest[j] = last
             THEN rest
             ELSE Append(rest, last)

\* variant: equal messages are merged
Filter_Dedupe ==
    /\ pc = "reduce"
    /\ Len(acc) = Len(fns)
    /\ result' = Array(Dedupe(SelectSeq(acc, isNotNil)))
    /\ pc' = "done"
    /\ UNCHANGED <<loaded, space, hook, fns, acc, calls, probe, frames, arrays>>

\* .filter(isNotNil) and the return
Filter ==
    /\ pc = "reduce"
    /\ Len(acc) = Len(fns)
    /\ result' = Array(SelectSeq(acc, isNotNil))
    /\ pc' = "done"
    /\ UNCHANGED <<loaded, space, hook, fns, acc, calls, probe, frames, arrays>>

\* the caller takes the returned messages and the frame is gone
Return ==
    /\ pc = "done"
    /\ pc' = "idle"
    /\ hook' = Absent
    /\ fns' = <<>>
    /\ acc' = <<>>
    /\ calls' = <<>>
    /\ result' = Undefined
    /\ UNCHANGED <<loaded, space, probe, frames, arrays>>

\* the TypeError of a check leaves runValidations and the hook
Propagate ==
    /\ pc = "thrown"
    /\ pc' = "idle"
    /\ hook' = Absent
    /\ fns' = <<>>
    /\ acc' = <<>>
    /\ calls' = <<>>
    /\ result' = Undefined
    /\ UNCHANGED <<loaded, space, probe, frames, arrays>>

\* isNil(x), isNotNil(x), isFalsy(x), isTruthy(x) applied to one value
ApplyGuards ==
    /\ pc = "idle"
    /\ \E x \in GuardValues :
           probe' = [value |-> x, isNil |-> isNil(x), isNotNil |-> isNotNil(x),
                     isFalsy |-> isFalsy(x), isTruthy |-> isTruthy(x)]
    /\ pc' = "guard"
    /\ UNCHANGED <<loaded, space, hook, fns, acc, calls, result, frames, arrays>>

\* the caller takes the classifications
GuardReturn ==
    /\ pc = "guard"
    /\ pc' = "idle"
    /\ probe' = NoProbe
    /\ UNCHANGED <<loaded, space, hook, fns, acc, calls, result, frames, arrays>>

Next ==
    \/ DefineSheet
    \/ ExportSpaceConfig
    \/ InvokeValidate
    \/ CallRunValidations
    \/ ReduceStep
    \/ Filter
    \/ Return
    \/ Propagate
    \/ ApplyGuards
    \/ GuardReturn

Spec == Init /\ [][Next]_vars


(***************************************************************************)
(* Validate hooks invoked by several workers at once.                      *)
(***************************************************************************)
\* the exported SpaceConfig once the module is loaded
ExportedSpace ==
    [name |-> "Employees", slug |-> "Employeessc",
     workbookConfigs |-> [basic |-> Workbook(SheetConstants)]]

\* the module is loaded and nothing has been invoked yet
InitConc ==
    /\ loaded = SheetConstants
    /\ space = ExportedSpace
    /\ Idle
    /\ WorkersIdle

\* null, "A@", "AB12xxxx"
WorkerValues == {Null} \cup PoolValues

\* the same check passed twice
WorkerLists == {<<c, c>> : c \in CheckPool}

\* variant: one module-level accumulator serves every call
AccOf_Shared(w) == 1

\* the accumulator of w's reduce: the [] its own call evaluated
AccOf(w) == w

\* entry of runValidations(...fns) on worker w
WorkerEnter(w, caller, checks) ==
    /\ frames[w].pc = "idle"
    /\ frames' = [frames EXCEPT ![w] =
                     [pc |-> "reduce", hook |-> caller, fns |-> checks,
                      calls |-> <<>>, result |-> Undefined]]
    /\ arrays' = [arrays EXCEPT ![AccOf(w)] = <<>>]
    /\ UNCHANGED <<loaded, space, pc, hook, fns, acc, calls, result, probe>>

\* the platform invokes field.validate(value) on worker w
WorkerInvokeValidate(w) ==
    /\ frames[w].pc = "idle"
    /\ \E place \in HookedFields(space), value \in WorkerValues :
           LET field == FieldAt(space, place)
           IN  WorkerEnter(w, field.name, <<HookCheck(field.validate, value)>>)

\* runValidations(fn, fn) on worker w
WorkerCallRunValidations(w) ==
    /\ frames[w].pc = "idle"
    /\ \E checks \in WorkerLists : WorkerEnter(w, Absent, checks)

\* one iteration of fns.reduce((acc, fn) => [...acc, fn()], []) on worker w
WorkerReduceStep(w) ==
    /\ frames[w].pc = "reduce"
    /\ Len(frames[w].calls) < Len(frames[w].fns)
    /\ LET k == Len(frames[w].calls) + 1
           r == Invoke(frames[w].fns[k])
       IN  IF IsThrow(r)
           THEN /\ frames' = [frames EXCEPT ![w].calls = Append(@, k),
                                            ![w].pc = "thrown"]
                /\ arrays' = arrays
           ELSE /\ frames' = [frames EXCEPT ![w].calls = Append(@, k)]
                /\ arrays' = [arrays EXCEPT ![AccOf(w)] = Append(@, r)]
    /\ UNCHANGED <<loaded, space, pc, hook, fns, acc, calls, result, probe>>

\* .filter(isNotNil) and the return on worker w
WorkerFilter(w) ==
    /\ frames[w].pc = "reduce"
    /\ Len(frames[w].calls) = Len(frames[w].fns)
    /\ frames' = [frames EXCEPT
                     ![w].result = Array(SelectSeq(arrays[AccOf(w)], isNotNil)),
                     ![w].pc = "done"]
    /\ UNCHANGED <<loaded, space, pc, hook, fns, acc, calls, result, probe, arrays>>

\* the caller on worker w takes the returned messages and the frame is gone
WorkerReturn(w) ==
    /\ frames[w].pc = "done"
    /\ frames' = [frames EXCEPT ![w] = IdleFrame]
    /\ arrays' = [arrays EXCEPT ![AccOf(w)] = <<>>]
    /\ UNCHANGED <<loaded, space, pc, hook, fns, acc, calls, result, probe>>

\* the TypeError of a check leaves runValidations and the hook on worker w
WorkerPropagate(w) ==
    /\ frames[w].pc = "thrown"
    /\ frames' = [frames EXCEPT ![w] = IdleFrame]
    /\ arrays' = [arrays EXCEPT ![AccOf(w)] = <<>>]
    /\ UNCHANGED <<loaded, space, pc, hook, fns, acc, calls, result, probe>>

NextConc ==
    \E w \in Workers :
        \/ WorkerInvokeValidate(w)
        \/ WorkerCallRunValidations(w)
        \/ WorkerReduceStep(w)
        \/ WorkerFilter(w)
        \/ WorkerReturn(w)
        \/ WorkerPropagate(w)

SpecConc == InitConc /\ [][NextConc]_vars

(***************************************************************************)
(* Properties.                                                             *)
(***************************************************************************)
\* the positions of the checks of a list that fail, i.e. return a Message
Failing(list) == {k \in 1..Len(list) : Invoke(list[k]).type = "Message"}

AllPass(list) == \A k \in 1..Len(list) : Invoke(list[k]) = Undefined

\* C1: runValidations invokes every supplied check exactly once, in the
\* order supplied; a check that returned a Message does not keep a later
\* check from being invoked.
C1_EveryCheckOnceInOrder ==
    /\ pc = "reduce" => calls = [k \in 1..Len(acc) |-> k]
    /\ pc = "done" => calls = [k \in 1..Len(fns) |-> k]

\* three checks, the first failed, the later two were still invoked
C1_Witness ==
    /\ pc = "done"
    /\ Len(fns) = 3
    /\ acc[1].type = "Message"
    /\ calls = <<1, 2, 3>>

\* C2: runValidations returns exactly the Messages of the failing checks,
\* one entry per failing check, in the order the checks were supplied;
\* nothing of a passing check appears and equal messages are not merged.
C2_MessagesOfFailingChecks ==
    pc = "done" =>
        /\ result.type = "array"
        /\ Len(result.val) = Cardinality(Failing(fns))
        /\ \E pos \in [1..Len(result.val) -> Failing(fns)] :
              /\ \A j \in 1..(Len(result.val) - 1) : pos[j] < pos[j + 1]
              /\ \A j \in 1..Len(result.val) : result.val[j] = Invoke(fns[pos[j]])

\* two checks fail with the same message around a passing one: two entries
C2_Witness ==
    /\ pc = "done"
    /\ Len(fns) = 3
    /\ Failing(fns) = {1, 3}
    /\ result = Array(<<FormatMessage, FormatMessage>>)

\* C3: with zero checks, or with checks that all pass, runValidations
\* returns the empty array, never undefined.
C3_AllPassGivesEmpty ==
    (pc = "done" /\ AllPass(fns)) => result = Array(<<>>)

\* two checks, both pass
C3_Witness ==
    /\ pc = "done"
    /\ Len(fns) = 2
    /\ AllPass(fns)
    /\ result = Array(<<>>)

\* C4: the check validateRegex(pattern)(nil) returns the Message 'Value
\* does not meet required format.' for both patterns of the schema and for
\* every nil value (null, undefined, '').
C4_NilFailsPattern ==
    \A k \in 1..Len(acc) :
        (fns[k].factory = "validateRegex" /\ isNil(fns[k].value))
            => acc[k] = FormatMessage

\* C5: the check validateEmail(nil) returns the Message 'Invalid email
\* address.' as a value and raises no fault, for every nil value.
C5_NilEmailIsMessage ==
    \A k \in 1..Len(calls) :
        (fns[k].factory = "validateEmail" /\ isNil(fns[k].value))
            => /\ pc # "thrown"
               /\ k <= Len(acc)
               /\ acc[k] = EmailMessage

\* C6: for every string value the check validateEmail(value) returns
\* nothing exactly when the value contains '@', and otherwise the Message
\* 'Invalid email address.' of kind error and stage validate.
C6_EmailContainsAt ==
    \A k \in 1..Len(calls) :
        (fns[k].factory = "validateEmail" /\ isString(fns[k].value))
            => /\ k <= Len(acc)
               /\ IF \E j \in 1..Len(fns[k].value.val) : fns[k].value.val[j] = 64
                  THEN acc[k] = Undefined
                  ELSE acc[k] = Message("Invalid email address.", "error", "validate")

\* the hook of EmailAddress accepted a value with '@' after its first character
C6_Witness ==
    /\ pc = "done"
    /\ hook = "EmailAddress"
    /\ isString(fns[1].value)
    /\ Len(fns[1].value.val) >= 2
    /\ fns[1].value.val[1] # 64
    /\ fns[1].value.val[2] = 64
    /\ result = Array(<<>>)

\* C7: the validate hook of Password passes a string value (empty message
\* sequence) exactly when its length is between 8 and 72 inclusive, and
\* otherwise returns the one Message 'Value does not meet required format.'.
C7_PasswordLength ==
    (pc = "done" /\ hook = "Password" /\ isString(fns[1].value)) =>
        IF Len(fns[1].value.val) \in 8..72
        THEN result = Array(<<>>)
        ELSE result = Array(<<FormatMessage>>)

IsAsciiLetterOrDigit(c) == c \in (48..57) \cup (65..90) \cup (97..122)

AlnumHooks == {"PayrollId", "SINNumber", "CertificationNumber"}

\* C8: the validate hooks of PayrollId, SINNumber and CertificationNumber
\* pass a string exactly when it is non-empty and all its characters are
\* ASCII letters or digits; every other string yields exactly one Message.
C8_AlnumOnly ==
    (pc = "done" /\ hook \in AlnumHooks /\ isString(fns[1].value)) =>
        IF /\ Len(fns[1].value.val) > 0
           /\ \A j \in 1..Len(fns[1].value.val) :
                 IsAsciiLetterOrDigit(fns[1].value.val[j])
        THEN result = Array(<<>>)
        ELSE result = Array(<<FormatMessage>>)

\* the hook of SINNumber rejected the empty string with one Message
C8_Witness ==
    /\ pc = "done"
    /\ hook = "SINNumber"
    /\ fns[1].value = Str(<<>>)
    /\ result = Array(<<FormatMessage>>)

\* the number of fields of a sheet with primary = true
Primaries(sheet) ==
    Cardinality({k \in 1..Len(sheet.fields) : sheet.fields[k].primary})

\* C9 as stated: every sheet of the workbook has exactly one field with
\* primary = true.
C9_ExactlyOnePrimary ==
    \A key \in DOMAIN SheetsOf(space) : Primaries(SheetsOf(space)[key]) = 1

\* C9 amended: every sheet of the workbook has at most one field with
\* primary = true; Employees, Employee Roles and Associated Employees have
\* exactly one, Employee Departments and Employee Groups have none.
C9_AtMostOnePrimary ==
    \A key \in DOMAIN SheetsOf(space) :
        LET sheet == SheetsOf(space)[key]
        IN  /\ Primaries(sheet) <= 1
            /\ Primaries(sheet) = 1 <=>
                  sheet.name \in {"Employees", "Employee Roles",
                                  "Associated Employees"}
            /\ Primaries(sheet) = 0 <=>
                  sheet.name \in {"Employee Departments", "Employee Groups"}

\* the space is exported, with five sheets, some with and some without a primary
C9_Witness ==
    /\ space # NoSpace
    /\ Cardinality(DOMAIN SheetsOf(space)) = 5
    /\ \E key \in DOMAIN SheetsOf(space) : Primaries(SheetsOf(space)[key]) = 1
    /\ \E key \in DOMAIN SheetsOf(space) : Primaries(SheetsOf(space)[key]) = 0

\* the places of the exported fields that declare a sheetKey or a foreignKey
ReferencePlaces(sp) ==
    {place \in FieldPlaces(sp) :
        FieldAt(sp, place).sheetKey # Absent \/ FieldAt(sp, place).foreignKey # Absent}

\* C10: every field that declares a reference names a sheet of the same
\* workbook and a field of that sheet that is primary or unique.
C10_ReferenceIntegrity ==
    \A place \in ReferencePlaces(space) :
        LET field == FieldAt(space, place)
        IN  /\ field.sheetKey \in DOMAIN SheetsOf(space)
            /\ \E k \in 1..Len(SheetsOf(space)[field.sheetKey].fields) :
                  LET target == SheetsOf(space)[field.sheetKey].fields[k]
                  IN  /\ target.name = field.foreignKey
                      /\ (target.primary \/ target.unique)

\* the space is exported and four fields declare a reference
C10_Witness ==
    /\ space # NoSpace
    /\ Cardinality(ReferencePlaces(space)) = 4

\* null, undefined or the empty string, read off the value itself
IsNilValue(x) ==
    \/ x.type = "null"
    \/ x.type = "undefined"
    \/ (x.type = "string" /\ Len(x.val) = 0)

IsFalsyValue(x) ==
    \/ (x.type = "number" /\ ~x.val.nan /\ x.val.n = 0)
    \/ (x.type = "number" /\ x.val.nan)
    \/ (x.type = "boolean" /\ ~x.val)
    \/ IsNilValue(x)

\* C12: isTruthy(v) is the negation of isFalsy(v) for every value, and
\* isFalsy(v) holds exactly when v is the number zero, not-a-number, the
\* boolean false or a nil value.
C12_TruthyComplementsFalsy ==
    pc = "guard" =>
        /\ probe.isTruthy <=> ~probe.isFalsy
        /\ probe.isFalsy <=> IsFalsyValue(probe.value)

\* the guards were applied to not-a-number: falsy and not truthy
C12_Witness ==
    /\ pc = "guard"
    /\ probe.value = NaN
    /\ probe.isFalsy
    /\ ~probe.isTruthy

\* some check of the list raises a fault
Throws(list) == \E k \in 1..Len(list) : IsThrow(Invoke(list[k]))

\* what runValidations returns for the list when nothing else runs
RunAlone(list) ==
    Array(SelectSeq([k \in 1..Len(list) |-> Invoke(list[k])], isNotNil))

\* C13: under every interleaving of the workers' validate-hook invocations
\* and repeated checks, each invocation returns what its own checks return
\* when run alone, and faults exactly when one of its own checks faults.
C13_IsolatedInvocations ==
    \A w \in Workers :
        /\ frames[w].pc = "done" =>
              /\ ~Throws(frames[w].fns)
              /\ frames[w].result = RunAlone(frames[w].fns)
        /\ frames[w].pc = "thrown" => Throws(frames[w].fns)

\* worker 1 returns an accepted password while worker 2, in the middle of
\* its own call, has collected the Message of a rejected e-mail address
C13_Witness ==
    /\ frames[1].pc = "done"
    /\ frames[1].hook = "Password"
    /\ frames[1].result = Array(<<>>)
    /\ frames[2].pc = "reduce"
    /\ frames[2].hook = "EmailAddress"
    /\ frames[2].calls = <<1>>
    /\ arrays[AccOf(2)] = <<EmailMessage>>

====
